---- MODULE Spec2Model ----
(***************************************************************************)
(* The in-memory job orchestration of learning_platform: JobManager        *)
(* (job_manager.py) and the fan-out worker (video_processor.py).           *)
(*                                                                         *)
(* Threads are modelled at the granularity at which they touch shared      *)
(* state: every read or write of JobManager.storage, of the shared         *)
(* `results` slot list and of active_threads is a step of its own; purely  *)
(* local computation is folded into the next shared step of its thread.    *)
(* Python indexes items from 0, the model from 1 (item i is results[i-1]). *)
(***************************************************************************)
EXTENDS Integers, Sequences, FiniteSets, TLC

\* Number of job ids create_job can hand out (uuid4 values, never reused).
MaxJobs == 1
\* Largest batch (number of youtube_urls) a worker is started with.
MaxItems == 2

\* Number of job ids create_job hands out where the store's operations are
\* called one after the other (StoreSpec, EvictSpec).
MaxStoreJobs == 2
\* The clock (datetime.now()) runs from 0 to MaxTime, in retention units.
MaxTime == 2
\* Largest retention window cleanup_old_jobs is called with.
MaxDays == 1

JobIds == 1..MaxJobs
StoreIds == 1..MaxStoreJobs
\* Every id a caller may pass: the ids create_job hands out and one more, which
\* is never a key of the store.
Ids == 1..(MaxStoreJobs + 1)

VARIABLES
    storage,        \* JobManager.storage: job id -> job record (a partial map)
    next_id,        \* how many ids uuid4 has produced
    active_threads, \* JobManager.active_threads (its key set)
    wpc,            \* per job: position of the background thread in _execute_worker
    wargs,          \* per job: the arguments execute_job_async was given
    werr,           \* per job: the exception the wrapper is handling ("" = none)
    slots,          \* per job: the `results` list of process_videos_worker
    tasks,          \* per job: one record per process_single_video thread
    summary,        \* per job: the value process_videos_worker returned
    sent,           \* per job: the notifications handed to _send_webhook and
                    \* what became of the sends
    now,            \* datetime.now()
    ret,            \* what the last call of a JobManager method or handler returned
    clean,          \* the locals of a running cleanup_old_jobs
    db              \* the goals and tasks tables of the database

vars == <<storage, next_id, active_threads, wpc, wargs, werr, slots, tasks,
          summary, sent, now, ret, clean, db>>
\* What the threads of a job leave alone.
aux == <<now, ret, clean, db>>

----------------------------------------------------------------------------
\* schema.py ProcessingStatus
PENDING == "pending"
PROCESSING == "processing"
COMPLETED == "completed"
FAILED == "failed"

\* Python's None in a `results` slot; an outcome record names its item.
None == [item |-> 0, success |-> FALSE]
\* A key that a job dict does not (yet) hold.
NoKey == -1
NoSummary == [total_videos |-> NoKey, successful_videos |-> NoKey,
              failed_videos |-> NoKey, results |-> <<>>]

\* The float (completed / total) * 100, kept exact as a fraction.
percentage_of(completed, total) == [num |-> completed * 100, den |-> total]
ZeroPct == [num |-> 0, den |-> 1]
PctEq(p, q) == p.num * q.den = q.num * p.den

\* create_job: the record stored for a new job. The keys completed_items and
\* final_result are not in the dict at creation; update_job's dict.update adds
\* them, so they start as NoKey. No code stores a user_id (lines 20 and 39 are
\* commented out): job.get("user_id") is None. created_at is never read.
new_job(total_items, webhook_url) ==
    [status |-> PENDING,
     webhook_url |-> webhook_url,
     progress |-> [total_items |-> total_items, completed_items |-> 0,
                   percentage |-> ZeroPct],
     results |-> <<>>,
     error |-> "",
     completed_items |-> NoKey,
     final_result |-> NoSummary,
     user_id |-> NoKey,
     updated_at |-> now]

\* dict.update(kwargs): every key of kwargs replaces the top-level key of the
\* same name, the other keys are left alone.
dict_update(job, kwargs) ==
    [f \in DOMAIN job |-> IF f \in DOMAIN kwargs THEN kwargs[f] ELSE job[f]]

\* update_job, lines 230-231: merge kwargs into the stored record (the caller
\* has checked, or not, that job_id is a key).
\* updated_at (line 231) is written in the same step: only cleanup_old_jobs
\* reads it, and a job deleted between the two lines is gone either way.
mut_update_job_merge(st, job_id, kwargs) ==
    [j \in DOMAIN st |-> [dict_update(st[j], kwargs) EXCEPT !.updated_at = now]]
update_job_merge(st, job_id, kwargs) ==
    [st EXCEPT ![job_id] = [dict_update(@, kwargs) EXCEPT !.updated_at = now]]

\* update_job, lines 234-239: the percentage is recomputed from the
\* completed_items of kwargs when total_items > 0 (has_items, line 237).
mut_has_items(total) == total >= 0
has_items(total) == total > 0
update_job_progress(st, job_id, kwargs) ==
    IF "completed_items" \in DOMAIN kwargs
    THEN LET total == st[job_id].progress.total_items
             completed == kwargs.completed_items
         IN IF has_items(total)
            THEN [st EXCEPT ![job_id].progress.percentage =
                                percentage_of(completed, total)]
            ELSE st
    ELSE st

Known(job_id) == job_id \in DOMAIN storage

----------------------------------------------------------------------------
\* A process_single_video thread: where it is, its local `result` (out), the
\* iterator position, partial sum and partial list of the two comprehensions, and
\* whether it is in the except block of line 45.
NoTask == [pc |-> "unstarted", out |-> "", k |-> 0, cnt |-> 0, lst |-> <<>>,
           handler |-> FALSE]
NoSent == [progress |-> {}, terminal |-> <<>>, outcomes |-> {}]
NoArgs == [n |-> 0, extra |-> FALSE]
\* A return value: the method, its argument (a job id, a number of days or of
\* urls), a boolean result, a
\* number (a count or an HTTP status) and, for a status poll, the body.
NoBody == [status |-> "", completed_videos |-> 0, total_videos |-> 0,
           results |-> <<>>, error |-> ""]
NoRet == [op |-> "", arg |-> 0, ok |-> FALSE, n |-> 0, body |-> NoBody]
Return(op, arg, ok, n) == [op |-> op, arg |-> arg, ok |-> ok, n |-> n, body |-> NoBody]
NoClean == [pc |-> "idle", cutoff |-> 0, size |-> 0, pos |-> 0, jobs_to_delete |-> <<>>]
\* The goals and tasks tables (models.py 10-23), empty: a row's id is its
\* position, goals rows hold user_id and completed, tasks rows goal_id and
\* completed.
NoDb == [goals |-> <<>>, tasks |-> <<>>]

Init ==
    /\ storage = <<>>
    /\ next_id = 0
    /\ active_threads = {}
    /\ wpc = [j \in Ids |-> "idle"]
    /\ wargs = [j \in Ids |-> NoArgs]
    /\ werr = [j \in Ids |-> ""]
    /\ slots = [j \in Ids |-> <<>>]
    /\ tasks = [j \in Ids |-> <<>>]
    /\ summary = [j \in Ids |-> NoSummary]
    /\ sent = [j \in Ids |-> NoSent]
    /\ now = 0
    /\ ret = NoRet
    /\ clean = NoClean
    /\ db = NoDb

\* create_job(job_type, job_data, webhook_url): total_items is
\* job_data.get("total_items", 0).
create_job(total_items, webhook_url) ==
    /\ next_id < MaxJobs
    /\ next_id' = next_id + 1
    /\ storage' = (next_id + 1 :> new_job(total_items, webhook_url)) @@ storage
    /\ UNCHANGED <<aux, active_threads, wpc, wargs, werr, slots, tasks, summary, sent>>

\* delete_job(job_id)
delete_job(job_id) ==
    /\ Known(job_id)
    /\ storage' = [j \in DOMAIN storage \ {job_id} |-> storage[j]]
    /\ UNCHANGED <<aux, next_id, active_threads, wpc, wargs, werr, slots, tasks,
                   summary, sent>>

\* execute_job_async(job_id, process_videos_worker, youtube_urls[, extra]) for a
\* job in the store: PROCESSING, register the thread, start it. Callers submit
\* a created job once (main.py process_videos_async); n is len(youtube_urls)
\* and extra says whether a further positional argument is passed along.
\* Lines 83-97 run in the caller's thread before the new thread exists; ids are
\* never reused, so a delete_job falling between them leaves the same store as
\* one right after them, and the call is taken as one step.
\* line 87: the kwargs of the update_job call
mut_processing_kwargs == [status |-> PENDING]
processing_kwargs == [status |-> PROCESSING]
execute_job_async(job_id, n, extra) ==
    /\ Known(job_id)
    /\ wpc[job_id] = "idle"
    /\ storage' = update_job_merge(storage, job_id, processing_kwargs)
    /\ active_threads' = active_threads \cup {job_id}
    /\ wargs' = [wargs EXCEPT ![job_id] = [n |-> n, extra |-> extra]]
    /\ wpc' = [wpc EXCEPT ![job_id] = "call"]
    /\ UNCHANGED <<aux, next_id, werr, slots, tasks, summary, sent>>

----------------------------------------------------------------------------
\* process_videos_worker and process_single_video (video_processor.py)

Items(job_id) == 1..Len(slots[job_id])

\* What process_youtube_video(url) can do, as process_single_video tells it
\* apart: "ok" returns success with a result whose success is True, "okfail"
\* returns success with a result that is itself an error record (ai.py 154-166),
\* "fail" returns a failure or no results, "raise" raises.
Outcomes == {"ok", "okfail", "fail", "raise"}

\* The record process_single_video puts in slot i: results["results"][0] on
\* the success branch, error_result otherwise.
mut_outcome_record(i, o) ==
    IF o = "raise" THEN None ELSE [item |-> i, success |-> (o = "ok")]
outcome_record(i, o) == [item |-> i, success |-> (o = "ok")]
error_result(i) == [item |-> i, success |-> FALSE]

\* [r for r in results if r is not None]
compact(s) == SelectSeq(s, LAMBDA r : r # None)

\* process_videos_worker lines 86-92: the aggregate it returns.
mut_worker_summary(s) ==
    LET final_results == compact(s)
    IN [total_videos |-> Len(s),
        successful_videos |-> Len(SelectSeq(final_results, LAMBDA r : r.success)),
        failed_videos |-> Len(SelectSeq(final_results, LAMBDA r : TRUE)),
        results |-> final_results]
worker_summary(s) ==
    LET final_results == compact(s)
    IN [total_videos |-> Len(s),
        successful_videos |-> Len(SelectSeq(final_results, LAMBDA r : r.success)),
        failed_videos |-> Len(SelectSeq(final_results, LAMBDA r : ~r.success)),
        results |-> final_results]

\* The thread has ended (or restarts its bookkeeping): its iterators and
\* partial values are gone.
Ended(t) == [t EXCEPT !.pc = "done", !.k = 0, !.cnt = 0, !.lst = <<>>]

SetTask(job_id, i, t) == [tasks EXCEPT ![job_id][i] = t]
Task(job_id, i) == tasks[job_id][i]

\* line 16-22 / 32-37 / 45-52: the collaborator returns or raises and the
\* outcome is written to slot i.
process_item(job_id, i, o) ==
    /\ i \in Items(job_id)
    /\ Task(job_id, i).pc = "start"
    /\ slots' = [slots EXCEPT ![job_id][i] = outcome_record(i, o)]
    /\ tasks' = SetTask(job_id, i,
                  [Task(job_id, i) EXCEPT
                     !.pc = IF o \in {"ok", "okfail"} THEN "hook" ELSE "count",
                     !.out = o, !.k = 1, !.cnt = 0, !.lst = <<>>,
                     !.handler = (o = "raise")])
    /\ UNCHANGED <<aux, storage, next_id, active_threads, wpc, wargs, werr, summary, sent>>

\* What requests.post(webhook_url, ..., timeout=30) does: it returns a
\* response with a 2xx or another status code, or it raises (no connection,
\* no answer within the timeout).
WebhookOutcomes == {"2xx", "non_2xx", "network_error", "timeout"}

\* _send_webhook, lines 193-204: whether the call raises to its caller. The
\* try block holds the whole send, except Exception catches what it raises,
\* and the status code of the response is printed, not tested.
mut_send_webhook_raises(o) == o \in {"network_error", "timeout"}
send_webhook_raises(o) == FALSE

\* lines 141-143 / 160-162 / 177-179: the job is in the store and has a
\* webhook_url, so a payload is handed to _send_webhook.
Sends(job_id) == Known(job_id) /\ storage[job_id].webhook_url

\* send_progress_webhook (job_manager.py 175-191), called on the success
\* branch only (lines 24-28), before update_job.
\* o is what requests.post does with the payload; an exception of
\* _send_webhook would be caught at line 45 of process_single_video.
send_progress_webhook(job_id, i, o) ==
    /\ i \in Items(job_id)
    /\ Task(job_id, i).pc = "hook"
    /\ IF Sends(job_id)
       THEN /\ sent' = [sent EXCEPT ![job_id].progress = @ \cup {i},
                                    ![job_id].outcomes = @ \cup {o}]
            /\ IF send_webhook_raises(o)
               THEN /\ slots' = [slots EXCEPT ![job_id][i] = error_result(i)]
                    /\ tasks' = SetTask(job_id, i,
                                  [Task(job_id, i) EXCEPT !.pc = "count", !.handler = TRUE])
               ELSE /\ slots' = slots
                    /\ tasks' = SetTask(job_id, i, [Task(job_id, i) EXCEPT !.pc = "count"])
       ELSE /\ sent' = sent
            /\ slots' = slots
            /\ tasks' = SetTask(job_id, i, [Task(job_id, i) EXCEPT !.pc = "count"])
    /\ UNCHANGED <<aux, storage, next_id, active_threads, wpc, wargs, werr, summary>>

\* lines 41 / 55: what one iteration of the generator adds to the sum
count_add(cnt, r) == IF r # None THEN cnt + 1 ELSE cnt

\* lines 41 / 55: one iteration of sum(1 for r in results if r is not None)
count_slot(job_id, i) ==
    /\ i \in Items(job_id)
    /\ Task(job_id, i).pc = "count"
    /\ LET t == Task(job_id, i)
           c == count_add(t.cnt, slots[job_id][t.k])
       IN tasks' = SetTask(job_id, i,
                     IF t.k = Len(slots[job_id])
                     THEN [t EXCEPT !.pc = "list", !.k = 1, !.cnt = c]
                     ELSE [t EXCEPT !.k = @ + 1, !.cnt = c])
    /\ UNCHANGED <<aux, storage, next_id, active_threads, wpc, wargs, werr, slots,
                   summary, sent>>

\* lines 42 / 56: what one iteration of the list comprehension adds
mut_list_append(lst, r) == Append(lst, r)
mut_list_append_twice(lst, r) == IF r # None THEN Append(Append(lst, r), r) ELSE lst
list_append(lst, r) == IF r # None THEN Append(lst, r) ELSE lst

\* lines 42 / 56: one iteration of [r for r in results if r is not None]
list_slot(job_id, i) ==
    /\ i \in Items(job_id)
    /\ Task(job_id, i).pc = "list"
    /\ LET t == Task(job_id, i)
           r == slots[job_id][t.k]
           l == list_append(t.lst, r)
       IN tasks' = SetTask(job_id, i,
                     IF t.k = Len(slots[job_id])
                     THEN [t EXCEPT !.pc = "u_check", !.k = 0, !.lst = l]
                     ELSE [t EXCEPT !.k = @ + 1, !.lst = l])
    /\ UNCHANGED <<aux, storage, next_id, active_threads, wpc, wargs, werr, slots,
                   summary, sent>>

\* A KeyError inside update_job called from process_single_video: raised in
\* the try block it is caught at line 45 (slot i becomes an error_result and
\* update_job is called again); raised in the handler it ends the thread.
item_key_error(job_id, i) ==
    IF Task(job_id, i).handler
    THEN /\ tasks' = SetTask(job_id, i, Ended(Task(job_id, i)))
         /\ UNCHANGED slots
    ELSE /\ slots' = [slots EXCEPT ![job_id][i] = error_result(i)]
         /\ tasks' = SetTask(job_id, i,
                       [Ended(Task(job_id, i)) EXCEPT
                          !.pc = "count", !.k = 1, !.handler = TRUE])

item_kwargs(t) == [completed_items |-> t.cnt, results |-> t.lst]

\* update_job line 227, called from lines 39 / 53
item_update_check(job_id, i) ==
    /\ i \in Items(job_id)
    /\ Task(job_id, i).pc = "u_check"
    /\ tasks' = SetTask(job_id, i,
                  IF Known(job_id)
                  THEN [Task(job_id, i) EXCEPT !.pc = "u_merge"]
                  ELSE Ended(Task(job_id, i)))
    /\ UNCHANGED <<aux, storage, next_id, active_threads, wpc, wargs, werr, slots,
                   summary, sent>>

\* update_job lines 230-231, called from lines 39 / 53
item_update_merge(job_id, i) ==
    /\ i \in Items(job_id)
    /\ Task(job_id, i).pc = "u_merge"
    /\ IF Known(job_id)
       THEN /\ storage' = update_job_merge(storage, job_id, item_kwargs(Task(job_id, i)))
            /\ tasks' = SetTask(job_id, i, [Task(job_id, i) EXCEPT !.pc = "u_pct"])
            /\ UNCHANGED slots
       ELSE /\ item_key_error(job_id, i)
            /\ UNCHANGED storage
    /\ UNCHANGED <<aux, next_id, active_threads, wpc, wargs, werr, summary, sent>>

\* update_job lines 234-241, called from lines 39 / 53
item_update_progress(job_id, i) ==
    /\ i \in Items(job_id)
    /\ Task(job_id, i).pc = "u_pct"
    /\ IF Known(job_id)
       THEN /\ storage' = update_job_progress(storage, job_id, item_kwargs(Task(job_id, i)))
            /\ tasks' = SetTask(job_id, i, Ended(Task(job_id, i)))
            /\ UNCHANGED slots
       ELSE /\ item_key_error(job_id, i)
            /\ UNCHANGED storage
    /\ UNCHANGED <<aux, next_id, active_threads, wpc, wargs, werr, summary, sent>>

----------------------------------------------------------------------------
\* _execute_worker (job_manager.py 101-137), the background thread of a job

\* line 111 with process_videos_worker: its signature takes job_id,
\* job_manager and youtube_urls, so one more positional argument is a
\* TypeError; otherwise lines 70-72 allocate the slot list.
worker_call(job_id) ==
    /\ wpc[job_id] = "call"
    /\ IF wargs[job_id].extra
       THEN /\ werr' = [werr EXCEPT ![job_id] = "TypeError"]
            /\ wpc' = [wpc EXCEPT ![job_id] = "f_check"]
            /\ UNCHANGED <<slots, tasks>>
       ELSE /\ slots' = [slots EXCEPT ![job_id] = [i \in 1..wargs[job_id].n |-> None]]
            /\ tasks' = [tasks EXCEPT ![job_id] = [i \in 1..wargs[job_id].n |-> NoTask]]
            /\ wpc' = [wpc EXCEPT ![job_id] = "spawn"]
            /\ UNCHANGED werr
    /\ UNCHANGED <<aux, storage, next_id, active_threads, wargs, summary, sent>>

Unstarted(job_id) == {i \in Items(job_id) : Task(job_id, i).pc = "unstarted"}
Min(S) == CHOOSE x \in S : \A y \in S : x <= y

\* lines 74-80: start the thread of the next item
worker_spawn(job_id) ==
    /\ wpc[job_id] = "spawn"
    /\ Unstarted(job_id) # {}
    /\ tasks' = SetTask(job_id, Min(Unstarted(job_id)),
                        [NoTask EXCEPT !.pc = "start"])
    /\ UNCHANGED <<aux, storage, next_id, active_threads, wpc, wargs, werr, slots,
                   summary, sent>>

\* lines 82-83: t.join() on every item thread returns once all have ended
mut_joined_first(job_id) == \A i \in Items(job_id) : i = 1 => Task(job_id, i).pc = "done"
mut_joined(job_id) == TRUE
joined(job_id) == \A i \in Items(job_id) : Task(job_id, i).pc = "done"

\* lines 82-92: join, then return the aggregate
worker_join(job_id) ==
    /\ wpc[job_id] = "spawn"
    /\ Unstarted(job_id) = {}
    /\ joined(job_id)
    /\ summary' = [summary EXCEPT ![job_id] = worker_summary(slots[job_id])]
    /\ wpc' = [wpc EXCEPT ![job_id] = "c_check"]
    /\ UNCHANGED <<aux, storage, next_id, active_threads, wargs, werr, slots, tasks, sent>>

\* lines 114-118 and 125-129: the kwargs of the two update_job calls
completed_kwargs(job_id) == [status |-> COMPLETED, final_result |-> summary[job_id]]
mut_failed_kwargs_unset(job_id) == [status |-> FAILED, error |-> ""]
mut_failed_kwargs(job_id) == [error |-> werr[job_id]]
failed_kwargs(job_id) == [status |-> FAILED, error |-> werr[job_id]]

\* update_job line 227, called from line 114
completed_check(job_id) ==
    /\ wpc[job_id] = "c_check"
    /\ wpc' = [wpc EXCEPT ![job_id] = IF Known(job_id) THEN "c_merge" ELSE "c_hook"]
    /\ UNCHANGED <<aux, storage, next_id, active_threads, wargs, werr, slots, tasks,
                   summary, sent>>

\* update_job lines 230-231, called from line 114; a KeyError goes to line 123
completed_merge(job_id) ==
    /\ wpc[job_id] = "c_merge"
    /\ IF Known(job_id)
       THEN /\ storage' = update_job_merge(storage, job_id, completed_kwargs(job_id))
            /\ wpc' = [wpc EXCEPT ![job_id] = "c_hook"]
            /\ UNCHANGED werr
       ELSE /\ werr' = [werr EXCEPT ![job_id] = "KeyError"]
            /\ wpc' = [wpc EXCEPT ![job_id] = "f_check"]
            /\ UNCHANGED storage
    /\ UNCHANGED <<aux, next_id, active_threads, wargs, slots, tasks, summary, sent>>

\* The terminal notification _send_completion_webhook / _send_error_webhook
\* hands to _send_webhook: none when the job is gone or has no webhook_url.
\* The job_completed payload holds job["status"] and job["results"] (lines
\* 149-151); the job_failed payload holds neither, and what is kept of it
\* here is the record as it is when the payload is built.
terminal_webhook(job_id, type, o) ==
    IF Sends(job_id)
    THEN [sent EXCEPT ![job_id].terminal =
            Append(@, [type |-> type, status |-> storage[job_id].status,
                       results |-> storage[job_id].results]),
                      ![job_id].outcomes = @ \cup {o}]
    ELSE sent

\* line 121: _send_completion_webhook (139-156)
\* An exception of _send_webhook would go to the except block of line 123.
send_completion_webhook(job_id, o) ==
    /\ wpc[job_id] = "c_hook"
    /\ sent' = terminal_webhook(job_id, "job_completed", o)
    /\ IF Sends(job_id) /\ send_webhook_raises(o)
       THEN /\ werr' = [werr EXCEPT ![job_id] = "RequestException"]
            /\ wpc' = [wpc EXCEPT ![job_id] = "f_check"]
       ELSE /\ werr' = werr
            /\ wpc' = [wpc EXCEPT ![job_id] = "finally"]
    /\ UNCHANGED <<aux, storage, next_id, active_threads, wargs, slots, tasks, summary>>

\* update_job line 227, called from line 125
failed_check(job_id) ==
    /\ wpc[job_id] = "f_check"
    /\ wpc' = [wpc EXCEPT ![job_id] = IF Known(job_id) THEN "f_merge" ELSE "f_hook"]
    /\ UNCHANGED <<aux, storage, next_id, active_threads, wargs, werr, slots, tasks,
                   summary, sent>>

\* update_job lines 230-231, called from line 125; a KeyError here is raised
\* out of the except block: the finally block runs and the thread ends.
failed_merge(job_id) ==
    /\ wpc[job_id] = "f_merge"
    /\ IF Known(job_id)
       THEN /\ storage' = update_job_merge(storage, job_id, failed_kwargs(job_id))
            /\ wpc' = [wpc EXCEPT ![job_id] = "f_hook"]
       ELSE /\ wpc' = [wpc EXCEPT ![job_id] = "finally"]
            /\ UNCHANGED storage
    /\ UNCHANGED <<aux, next_id, active_threads, wargs, werr, slots, tasks, summary, sent>>

\* line 132: _send_error_webhook (158-173)
\* An exception of _send_webhook would leave the except block: the finally
\* block runs and the thread ends.
send_error_webhook(job_id, o) ==
    /\ wpc[job_id] = "f_hook"
    /\ sent' = terminal_webhook(job_id, "job_failed", o)
    /\ wpc' = [wpc EXCEPT ![job_id] = "finally"]
    /\ UNCHANGED <<aux, storage, next_id, active_threads, wargs, werr, slots, tasks, summary>>

\* lines 136-137: del self.active_threads[job_id] when it is a key
mut_deregister(threads, job_id) == threads
deregister(threads, job_id) == threads \ {job_id}

\* get_active_jobs(), lines 206-208
get_active_jobs == active_threads

\* lines 134-137
worker_finally(job_id) ==
    /\ wpc[job_id] = "finally"
    /\ active_threads' = deregister(active_threads, job_id)
    /\ wpc' = [wpc EXCEPT ![job_id] = "done"]
    /\ UNCHANGED <<aux, storage, next_id, wargs, werr, slots, tasks, summary, sent>>

----------------------------------------------------------------------------
ItemStep(job_id, i) ==
    \/ \E o \in Outcomes : process_item(job_id, i, o)
    \/ \E o \in WebhookOutcomes : send_progress_webhook(job_id, i, o)
    \/ count_slot(job_id, i)
    \/ list_slot(job_id, i)
    \/ item_update_check(job_id, i)
    \/ item_update_merge(job_id, i)
    \/ item_update_progress(job_id, i)

WrapperStep(job_id) ==
    \/ worker_call(job_id)
    \/ worker_spawn(job_id)
    \/ worker_join(job_id)
    \/ completed_check(job_id)
    \/ completed_merge(job_id)
    \/ \E o \in WebhookOutcomes : send_completion_webhook(job_id, o)
    \/ failed_check(job_id)
    \/ failed_merge(job_id)
    \/ \E o \in WebhookOutcomes : send_error_webhook(job_id, o)
    \/ worker_finally(job_id)

Next ==
    \/ \E total \in 0..MaxItems, hook \in BOOLEAN : create_job(total, hook)
    \/ \E j \in JobIds, n \in 0..MaxItems, extra \in BOOLEAN :
          execute_job_async(j, n, extra)
    \/ \E j \in JobIds : delete_job(j)
    \/ \E j \in JobIds : WrapperStep(j)
    \/ \E j \in JobIds, i \in 1..MaxItems : ItemStep(j, i)

Spec == Init /\ [][Next]_vars

\* Every started thread keeps being scheduled, the per-item collaborator and
\* every webhook send return: each thread step that is enabled is taken.
Fairness ==
    /\ \A j \in JobIds : WF_vars(WrapperStep(j))
    /\ \A j \in JobIds, i \in 1..MaxItems : WF_vars(ItemStep(j, i))

FairSpec == Spec /\ Fairness

----------------------------------------------------------------------------
\* The methods of JobManager as calls that run from entry to return with
\* nothing in between, and that record what they return.

\* update_job(job_id, **kwargs), lines 225-241, on the store st
mut_update_job_store(st, job_id, kwargs) ==
    IF job_id \notin DOMAIN st
    THEN (job_id :> dict_update(new_job(0, FALSE), kwargs)) @@ st
    ELSE update_job_progress(update_job_merge(st, job_id, kwargs), job_id, kwargs)
update_job_store(st, job_id, kwargs) ==
    IF job_id \notin DOMAIN st
    THEN st
    ELSE update_job_progress(update_job_merge(st, job_id, kwargs), job_id, kwargs)

\* delete_job(job_id), lines 61-66, on the store st
delete_job_store(st, job_id) == [j \in DOMAIN st \ {job_id} |-> st[j]]

\* create_job, with the id it returns
create_job_call(total_items, webhook_url) ==
    /\ next_id < MaxStoreJobs
    /\ next_id' = next_id + 1
    /\ storage' = (next_id + 1 :> new_job(total_items, webhook_url)) @@ storage
    /\ ret' = Return("create_job", next_id + 1, TRUE, 0)
    /\ UNCHANGED <<active_threads, wpc, wargs, werr, slots, tasks, summary, sent,
                   now, clean, db>>

\* update_job(job_id, completed_items=c)
update_job_call(job_id, kwargs) ==
    /\ storage' = update_job_store(storage, job_id, kwargs)
    /\ ret' = Return("update_job", job_id, job_id \in DOMAIN storage, 0)
    /\ UNCHANGED <<next_id, active_threads, wpc, wargs, werr, slots, tasks, summary,
                   sent, now, clean, db>>

\* delete_job(job_id)
delete_job_call(job_id) ==
    /\ storage' = delete_job_store(storage, job_id)
    /\ ret' = Return("delete_job", job_id, job_id \in DOMAIN storage, 0)
    /\ UNCHANGED <<next_id, active_threads, wpc, wargs, werr, slots, tasks, summary,
                   sent, now, clean, db>>

\* execute_job_async line 83: is job_id a key of the store
mut_in_storage(st, job_id) == TRUE
in_storage(st, job_id) == job_id \in DOMAIN st

\* execute_job_async(job_id, process_videos_worker, youtube_urls[, extra]),
\* lines 83-99, for any job id; a known job is submitted once.
execute_job_async_call(job_id, n, extra) ==
    IF in_storage(storage, job_id)
    THEN /\ wpc[job_id] = "idle"
         /\ storage' = update_job_store(storage, job_id, processing_kwargs)
         /\ active_threads' = active_threads \cup {job_id}
         /\ wargs' = [wargs EXCEPT ![job_id] = [n |-> n, extra |-> extra]]
         /\ wpc' = [wpc EXCEPT ![job_id] = "call"]
         /\ ret' = Return("execute_job_async", job_id, TRUE, 0)
         /\ UNCHANGED <<next_id, werr, slots, tasks, summary, sent, now, clean, db>>
    ELSE /\ ret' = Return("execute_job_async", job_id, FALSE, 0)
         /\ UNCHANGED <<storage, next_id, active_threads, wpc, wargs, werr, slots,
                        tasks, summary, sent, now, clean, db>>

\* cleanup_old_jobs line 216: the test on one record
mut_is_old(job, cutoff_date) == job.updated_at <= cutoff_date
is_old(job, cutoff_date) == job.updated_at < cutoff_date

\* cleanup_old_jobs(days), lines 210-222, with no other thread running meanwhile
cleanup_old_jobs(days) ==
    LET cutoff_date == now - days
        jobs_to_delete == {j \in DOMAIN storage : is_old(storage[j], cutoff_date)}
    IN /\ storage' = [j \in DOMAIN storage \ jobs_to_delete |-> storage[j]]
       /\ ret' = Return("cleanup_old_jobs", days, TRUE, Cardinality(jobs_to_delete))
       /\ UNCHANGED <<next_id, active_threads, wpc, wargs, werr, slots, tasks,
                      summary, sent, now, clean, db>>

\* Time passes.
Tick ==
    /\ now < MaxTime
    /\ now' = now + 1
    /\ UNCHANGED <<storage, next_id, active_threads, wpc, wargs, werr, slots, tasks,
                   summary, sent, ret, clean, db>>

\* The steps of the background thread of a job started without urls or with a
\* surplus argument: no item thread is started.
StoreWrapperStep(job_id) ==
    \/ worker_call(job_id)
    \/ worker_join(job_id)
    \/ completed_check(job_id)
    \/ completed_merge(job_id)
    \/ \E o \in WebhookOutcomes : send_completion_webhook(job_id, o)
    \/ failed_check(job_id)
    \/ failed_merge(job_id)
    \/ \E o \in WebhookOutcomes : send_error_webhook(job_id, o)
    \/ worker_finally(job_id)

\* The kwargs a caller updates progress with.
CallKwargs == {[completed_items |-> c] : c \in 0..MaxItems}

\* The store under create, update, delete and eviction calls as time passes.
StoreNext ==
    \/ \E total \in 0..MaxItems : create_job_call(total, TRUE)
    \/ \E j \in Ids, kwargs \in CallKwargs : update_job_call(j, kwargs)
    \/ \E j \in Ids : delete_job_call(j)
    \/ \E days \in 0..MaxDays : cleanup_old_jobs(days)
    \/ Tick

StoreSpec == Init /\ [][StoreNext]_vars

\* Jobs created, submitted (with any id, known or not) and deleted, and the
\* background threads of the submitted ones.
SubmitNext ==
    \/ \E total \in 0..MaxItems, hook \in BOOLEAN : create_job_call(total, hook)
    \/ \E j \in Ids : delete_job_call(j)
    \/ \E j \in Ids : execute_job_async_call(j, 0, FALSE)
    \/ \E j \in Ids, n \in 1..MaxItems : execute_job_async_call(j, n, TRUE)
    \/ \E j \in StoreIds : StoreWrapperStep(j)

SubmitSpec == Init /\ [][SubmitNext]_vars

----------------------------------------------------------------------------
Terminal == {COMPLETED, FAILED}
Submitted(j) == wpc[j] # "idle"
StatusOf(j) == storage[j].status

\* C1: every job that was submitted and is not deleted eventually has status
\* COMPLETED or FAILED, whether its worker routine returns or raises.
C1_EventuallyTerminal ==
    \A j \in JobIds : Submitted(j) ~> (~Known(j) \/ StatusOf(j) \in Terminal)

\* A job whose worker raised ended FAILED and its thread is over.
C1_Witness ==
    \E j \in JobIds : /\ Known(j) /\ wpc[j] = "done"
                      /\ werr[j] = "TypeError" /\ StatusOf(j) = FAILED

\* C2: the status of a stored job changes only along PENDING -> PROCESSING,
\* PROCESSING -> COMPLETED and PROCESSING -> FAILED.
StatusEdges == {<<PENDING, PROCESSING>>, <<PROCESSING, COMPLETED>>,
                <<PROCESSING, FAILED>>}
C2_StatusEdges ==
    [][\A j \in JobIds :
         (Known(j) /\ j \in DOMAIN storage') =>
            \/ storage'[j].status = StatusOf(j)
            \/ <<StatusOf(j), storage'[j].status>> \in StatusEdges]_vars

\* A job went PENDING -> PROCESSING -> COMPLETED and item tasks ran in between.
C2_Witness ==
    \E j \in JobIds : /\ Known(j) /\ StatusOf(j) = COMPLETED
                      /\ Len(slots[j]) >= 1 /\ wpc[j] = "finally"

\* The item threads of job j have all been started and have all ended.
AllItemsFinished(j) ==
    /\ wpc[j] \notin {"idle", "call"}
    /\ \A i \in Items(j) : Task(j, i).pc = "done"
\* The job is run by process_videos_worker with the arguments it accepts.
RunsWorker(j) == wpc[j] \notin {"idle", "call"} /\ ~wargs[j].extra

\* C3: no lost update: once all item tasks of a job have finished, the
\* completed count the job record holds (the completed_items update_job
\* stored) is the number of items that finished.
C3_NoLostUpdate ==
    \A j \in JobIds :
       (Known(j) /\ AllItemsFinished(j) /\ Len(slots[j]) > 0) =>
          storage[j].completed_items = Len(slots[j])

\* C3, for the completed_items of the progress record, which status polling
\* reads: it is the number of items once they have all finished.
C3_PolledCount ==
    \A j \in JobIds :
       (Known(j) /\ AllItemsFinished(j)) =>
          storage[j].progress.completed_items = Len(slots[j])

\* C4: once all item tasks of a job have finished, `results` has one entry per
\* item and entry i is the outcome of item i.
C4_FinalResults ==
    \A j \in JobIds :
       (Known(j) /\ AllItemsFinished(j) /\ Len(slots[j]) > 0) =>
          /\ Len(storage[j].results) = Len(slots[j])
          /\ \A i \in Items(j) : storage[j].results[i] = slots[j][i]

\* The collaborator's call for item i of job j faulted: it raised or returned
\* a failure.
Faulted(j, i) == Task(j, i).out \in {"okfail", "fail", "raise"}

\* C5: an item whose processing raises or returns a failure gets an
\* error-outcome record in its slot, every sibling still reaches its own
\* outcome, the worker returns normally and the job ends COMPLETED.
C5_FailureIsolation ==
    \A j \in JobIds :
       /\ \A i \in Items(j) :
             Task(j, i).pc \notin {"unstarted", "start"} =>
                /\ slots[j][i].item = i
                /\ Faulted(j, i) => ~slots[j][i].success
                /\ (Known(j) /\ ~Faulted(j, i)) => slots[j][i].success
       /\ (Known(j) /\ RunsWorker(j) /\ wpc[j] \in {"c_hook", "finally", "done"}) =>
             /\ werr[j] = ""
             /\ StatusOf(j) = COMPLETED
             /\ \A i \in Items(j) : Task(j, i).pc = "done" /\ slots[j][i] # None

\* A two-item job ended COMPLETED with outcomes [success1, error2], item 2
\* having raised.
C5_Witness ==
    \E j \in JobIds :
       /\ Known(j) /\ wpc[j] = "done" /\ StatusOf(j) = COMPLETED
       /\ Len(slots[j]) = 2
       /\ Task(j, 1).out = "ok" /\ slots[j][1].success
       /\ Task(j, 2).out = "raise" /\ ~slots[j][2].success

\* The worker of job j has returned its aggregate.
Returned(j) == RunsWorker(j) /\ wpc[j] # "spawn"
\* Item i succeeded: the collaborator returned a success and the item's own
\* bookkeeping did not raise into the except block of line 45.
Succeeded(j, i) == Task(j, i).out = "ok" /\ ~Task(j, i).handler

\* C6: the aggregate process_videos_worker returns for N items has
\* total_videos = N, N results in input order, successful_videos the number of
\* items that succeeded, failed_videos the number that failed or raised, and
\* the two add up to N.
C6_Summary ==
    \A j \in JobIds :
       Returned(j) =>
          LET r == summary[j]
              N == wargs[j].n
          IN /\ r.total_videos = N
             /\ Len(r.results) = N
             /\ \A i \in 1..N : r.results[i].item = i
             /\ r.successful_videos = Cardinality({i \in 1..N : Succeeded(j, i)})
             /\ r.failed_videos = Cardinality({i \in 1..N : ~Succeeded(j, i)})
             /\ r.successful_videos + r.failed_videos = N

\* A worker returned the aggregate of two items, one succeeded and one failed.
C6_Witness ==
    \E j \in JobIds :
       /\ Returned(j) /\ wargs[j].n = 2
       /\ summary[j].successful_videos = 1 /\ summary[j].failed_videos = 1
       /\ Task(j, 1).out = "fail" /\ Task(j, 2).out = "ok"

\* C7: a job is never COMPLETED while one of its item tasks is still running.
C7_JoinBarrier ==
    \A j \in JobIds :
       (Known(j) /\ StatusOf(j) = COMPLETED) =>
          \A i \in Items(j) : Task(j, i).pc = "done"

\* A job with two item tasks became COMPLETED.
C7_Witness ==
    \E j \in JobIds :
       /\ Known(j) /\ StatusOf(j) = COMPLETED /\ wpc[j] = "c_hook"
       /\ Len(slots[j]) = 2

\* C8: while a job is PROCESSING, the completed count a read of its record
\* returns never decreases.
C8_Monotonic ==
    [][\A j \in JobIds :
         (Known(j) /\ j \in DOMAIN storage' /\ StatusOf(j) = PROCESSING) =>
            /\ storage'[j].progress.completed_items
                  >= storage[j].progress.completed_items
            /\ storage'[j].completed_items >= storage[j].completed_items]_vars

\* C9: progress.percentage is progress.completed_items / progress.total_items
\* * 100 when total_items > 0, and 0 otherwise.
C9_Percentage ==
    \A j \in JobIds :
       Known(j) =>
          LET g == storage[j].progress
          IN PctEq(g.percentage,
                   IF g.total_items > 0
                   THEN percentage_of(g.completed_items, g.total_items)
                   ELSE ZeroPct)

\* C10: `results` holds outcomes only of items whose slot is written, each as
\* written, in increasing item order, without placeholders or repeats.
C10_CompactedView ==
    \A j \in JobIds :
       Known(j) =>
          LET rs == storage[j].results
          IN /\ \A p \in 1..Len(rs) :
                   /\ rs[p] # None
                   /\ rs[p].item \in Items(j)
                   /\ slots[j][rs[p].item] = rs[p]
             /\ \A p, q \in 1..Len(rs) : p < q => rs[p].item < rs[q].item

\* A snapshot holding item 2 alone while item 1 is still being processed.
C10_Witness ==
    \E j \in JobIds :
       /\ Known(j) /\ Len(slots[j]) = 2
       /\ Len(storage[j].results) = 1 /\ storage[j].results[1].item = 2
       /\ Task(j, 1).pc = "start"

\* C11: the `results` of a job never has more entries than its
\* progress.total_items, for a job whose total_items is the number of urls it
\* is run with (as process_videos_async creates it).
C11_ResultsWithinTotal ==
    \A j \in JobIds :
       (Known(j) /\ (Submitted(j) => wargs[j].n = storage[j].progress.total_items)) =>
          Len(storage[j].results) <= storage[j].progress.total_items

\* A job of two urls whose results has reached two entries.
C11_Witness ==
    \E j \in JobIds :
       /\ Known(j) /\ Submitted(j) /\ wargs[j].n = 2
       /\ storage[j].progress.total_items = 2 /\ Len(storage[j].results) = 2

\* The step is the return of a call of method op.
Returns(op) == ret' # ret /\ ret'.op = op

\* C12: execute_job_async with a job id that is not in the store returns
\* False and changes nothing: no record made or changed, no thread registered
\* or started, no worker invoked.
C12_UnknownSubmit ==
    [][(Returns("execute_job_async") /\ ret'.arg \notin DOMAIN storage) =>
          /\ ~ret'.ok
          /\ UNCHANGED <<storage, next_id, active_threads, wpc, wargs, werr, slots,
                         tasks, summary, sent>>]_vars

\* A submit of an unknown id returned False while another job's thread runs.
C12_Witness ==
    /\ ret.op = "execute_job_async" /\ ~ret.ok /\ ret.arg \notin DOMAIN storage
    /\ \E j \in DOMAIN storage : j \in active_threads /\ wpc[j] = "f_merge"

\* C14: update_job with a job id that is not in the store returns False and
\* leaves the store as it is: the same records, none modified.
C14_UnknownUpdate ==
    [][(Returns("update_job") /\ ret'.arg \notin DOMAIN storage) =>
          /\ ~ret'.ok
          /\ Cardinality(DOMAIN storage') = Cardinality(DOMAIN storage)
          /\ storage' = storage]_vars

\* An update of an unknown id returned False on a store that holds a record.
C14_Witness ==
    /\ ret.op = "update_job" /\ ~ret.ok /\ ret.arg \notin DOMAIN storage
    /\ Cardinality(DOMAIN storage) = 1

\* C15: cleanup_old_jobs(d) removes exactly the jobs whose updated_at is
\* earlier than now - d, keeps the others as they are and returns the number
\* of jobs it removed.
C15_Eviction ==
    [][Returns("cleanup_old_jobs") =>
          LET cutoff == now - ret'.arg
          IN /\ DOMAIN storage' =
                   {j \in DOMAIN storage : storage[j].updated_at >= cutoff}
             /\ \A j \in DOMAIN storage' : storage'[j] = storage[j]
             /\ ret'.n = Cardinality(DOMAIN storage \ DOMAIN storage')]_vars

\* An eviction removed one job and kept one that was updated at the cutoff.
C15_Witness ==
    /\ ret.op = "cleanup_old_jobs" /\ ret.n = 1 /\ ret.arg = 1
    /\ \E j \in DOMAIN storage : storage[j].updated_at = now - 1

\* C13: the id of a submitted job is in the active-job registry exactly from
\* its submit to the end of its execution wrapper, and the wrapper ends, so
\* the id is eventually out of get_active_jobs, whether the worker returned
\* or raised.
C13_RegistryCleanup ==
    /\ [](\A j \in JobIds : j \in get_active_jobs <=> wpc[j] \notin {"idle", "done"})
    /\ \A j \in JobIds :
          Submitted(j) ~> (wpc[j] = "done" /\ j \notin get_active_jobs)

\* A job deleted under its running worker, whose wrapper hit the KeyError,
\* is out of the registry.
C13_Witness ==
    \E j \in JobIds : /\ wpc[j] = "done" /\ werr[j] = "KeyError"
                      /\ j \notin get_active_jobs /\ ~Known(j)

\* ---------------------------------------------------------------------
\* cleanup_old_jobs() statement by statement, beside the other store calls
\* of other threads.  clean.pc is the position of the cleaning thread:
\* "idle" (no call, or the last call returned), "scan" (in the for loop of
\* lines 215-217), "delete" (in the for loop of lines 219-220), "raised"
\* (the last call ended with RuntimeError).

\* get_job(job_id), lines 56-58
get_job_call(job_id) ==
    /\ ret' = Return("get_job", job_id, job_id \in DOMAIN storage, 0)
    /\ UNCHANGED <<storage, next_id, active_threads, wpc, wargs, werr, slots, tasks,
                   summary, sent, now, clean, db>>

\* lines 212-215: the cutoff, the empty list and the iterator over
\* storage.items(), which records the size of the dict.
cleanup_begin(days) ==
    /\ clean.pc \in {"idle", "raised"}
    /\ clean' = [pc |-> "scan", cutoff |-> now - days,
                 size |-> Cardinality(DOMAIN storage), pos |-> 0,
                 jobs_to_delete |-> <<>>]
    /\ UNCHANGED <<storage, next_id, active_threads, wpc, wargs, werr, slots, tasks,
                   summary, sent, now, ret, db>>

\* The keys the iterator has not yielded yet: keys are kept in insertion
\* order, which is the order of the ids.
Unvisited == {j \in DOMAIN storage : j > clean.pos}

\* lines 215-217: one next() of the dict iterator and the loop body.  next()
\* raises RuntimeError when the size of the dict is not the recorded one.
cleanup_scan ==
    /\ clean.pc = "scan"
    /\ IF Cardinality(DOMAIN storage) # clean.size
       THEN clean' = [clean EXCEPT !.pc = "raised"]
       ELSE IF Unvisited = {}
            THEN clean' = [clean EXCEPT !.pc = "delete", !.pos = 0]
            ELSE LET job_id == CHOOSE j \in Unvisited : \A k \in Unvisited : j <= k
                 IN clean' = [clean EXCEPT
                        !.pos = job_id,
                        !.jobs_to_delete =
                            IF is_old(storage[job_id], clean.cutoff)
                            THEN Append(@, job_id) ELSE @]
    /\ UNCHANGED <<storage, next_id, active_threads, wpc, wargs, werr, slots, tasks,
                   summary, sent, now, ret, db>>

\* lines 219-222: one delete_job of the second loop, or the return.
cleanup_delete ==
    /\ clean.pc = "delete"
    /\ IF clean.pos < Len(clean.jobs_to_delete)
       THEN /\ storage' = delete_job_store(storage, clean.jobs_to_delete[clean.pos + 1])
            /\ clean' = [clean EXCEPT !.pos = @ + 1]
            /\ ret' = ret
       ELSE /\ storage' = storage
            /\ clean' = [clean EXCEPT !.pc = "idle"]
            /\ ret' = Return("cleanup_old_jobs", clean.cutoff, TRUE,
                             Len(clean.jobs_to_delete))
    /\ UNCHANGED <<next_id, active_threads, wpc, wargs, werr, slots, tasks,
                   summary, sent, now, db>>

EvictNext ==
    \/ \E total \in 1..MaxItems : create_job_call(total, TRUE)
    \/ \E j \in Ids : get_job_call(j)
    \/ \E j \in Ids, kw \in CallKwargs : update_job_call(j, kw)
    \/ \E j \in Ids : delete_job_call(j)
    \/ \E days \in 0..MaxDays : cleanup_begin(days)
    \/ cleanup_scan
    \/ cleanup_delete
    \/ Tick

EvictSpec == Init /\ [][EvictNext]_vars

\* C16: cleanup_old_jobs never ends with the dict-changed-size error,
\* whatever create_job, get_job, update_job and delete_job calls of other
\* threads fall between the steps of its scan, and the store stays a table
\* of job records.
C16_CleanupNeverFaults ==
    /\ clean.pc # "raised"
    /\ \A j \in DOMAIN storage : DOMAIN storage[j] = DOMAIN new_job(0, FALSE)

\* C17: when a job is deleted under its running worker, no later update_job
\* for its id raises: the execution wrapper never catches a KeyError, and no
\* item task is in its exception handler unless its collaborator call raised.
C17_DeletedUpdateNoRaise ==
    \A j \in JobIds :
        /\ werr[j] # "KeyError"
        /\ \A i \in Items(j) : Task(j, i).handler => Task(j, i).out = "raise"

\* A step that hands a notification of job j to _send_webhook.
SendStep(j) == sent'[j] # sent[j]

\* C18: a webhook send that fails (network error, timeout, non-2xx answer)
\* raises nothing to its caller and changes no job state: over every send
\* step the store, the item slots and the caught error are unchanged, the
\* sending thread goes on as after a delivered send (an item task to its
\* count, not into its handler; the wrapper to its finally block), and a
\* job still in the store whose worker returned has ended COMPLETED.
C18_SendFailureHarmless ==
    /\ [][\A j \in JobIds :
            SendStep(j) =>
               /\ storage' = storage /\ slots' = slots /\ werr' = werr
               /\ wpc'[j] \in {wpc[j], "finally"}
               /\ \A i \in Items(j) : Task(j, i).handler' = Task(j, i).handler]_vars
    /\ [](\A j \in JobIds :
            Returned(j) /\ wpc[j] = "done" /\ Known(j) => StatusOf(j) = COMPLETED)

\* A job whose worker returned and whose progress and completion sends all
\* failed has ended COMPLETED.
C18_Witness ==
    \E j \in JobIds :
        /\ Returned(j) /\ wpc[j] = "done" /\ Known(j) /\ StatusOf(j) = COMPLETED
        /\ sent[j].progress # {} /\ Len(sent[j].terminal) = 1
        /\ sent[j].outcomes = {"network_error", "timeout", "non_2xx"}

\* ---------------------------------------------------------------------
\* The HTTP handlers of main.py over the job manager.

MaxUsers == 2
\* current_user["user_id"] of an authenticated caller (main.py:244): the id
\* of a user row.
UserIds == 1..MaxUsers

\* main.py:199, the largest batch one request may hold
MAX_VIDEOS == 10
\* Sizes of request.youtube_urls: empty, one, the largest accepted, one more.
BatchSizes == {0, 1, MAX_VIDEOS, MAX_VIDEOS + 1}

\* main.py:196-200: the two tests that answer 400
mut_batch_rejected(n) == n > MAX_VIDEOS
batch_rejected(n) == n = 0 \/ n > MAX_VIDEOS

\* main.py:203: request.webhook_url or the default url, which is not empty
DefaultWebhook == TRUE

\* POST /ai/process-videos (main.py:184-236) with a batch of n urls; hook says
\* whether the request names a webhook_url.  After the tests: create_job
\* (206-214), then execute_job_async(job_id, process_videos_worker,
\* request.youtube_urls, webhook_url) (217-222), which passes webhook_url along
\* as one more positional argument of the worker.  The job id is a fresh uuid
\* nobody else holds before the handler returns.
process_videos_async(n, hook) ==
    IF batch_rejected(n)
    THEN /\ ret' = Return("process_videos_async", n, FALSE, 400)
         /\ UNCHANGED <<storage, next_id, active_threads, wpc, wargs, werr, slots,
                        tasks, summary, sent, now, clean, db>>
    ELSE LET job_id == next_id + 1
             webhook_url == hook \/ DefaultWebhook
             created == (job_id :> new_job(n, webhook_url)) @@ storage
         IN /\ next_id < MaxStoreJobs
            /\ next_id' = job_id
            /\ storage' = update_job_store(created, job_id, processing_kwargs)
            /\ active_threads' = active_threads \cup {job_id}
            /\ wargs' = [wargs EXCEPT ![job_id] = [n |-> n, extra |-> TRUE]]
            /\ wpc' = [wpc EXCEPT ![job_id] = "call"]
            /\ ret' = Return("process_videos_async", n, TRUE, 200)
            /\ UNCHANGED <<werr, slots, tasks, summary, sent, now, clean, db>>

\* main.py:258-270: the response built from the job record
status_response(job) ==
    [status |-> job.status,
     completed_videos |-> job.progress.completed_items,
     total_videos |-> job.progress.total_items,
     results |-> job.results,
     error |-> job.error]

\* GET /ai/jobs/{job_id}/status (main.py:242-270) by the authenticated user
\* user_id: 404 for an id that is not in the store, 403 when the record's
\* user_id (job.get("user_id")) is not the caller's, else the snapshot.
get_job_status(job_id, user_id) ==
    /\ ret' = IF job_id \notin DOMAIN storage
              THEN Return("get_job_status", job_id, FALSE, 404)
              ELSE IF storage[job_id].user_id # user_id
                   THEN Return("get_job_status", job_id, FALSE, 403)
                   ELSE [Return("get_job_status", job_id, TRUE, 200)
                            EXCEPT !.body = status_response(storage[job_id])]
    /\ UNCHANGED <<storage, next_id, active_threads, wpc, wargs, werr, slots, tasks,
                   summary, sent, now, clean, db>>

\* The steps of the background thread of a job submitted by
\* process_videos_async: the worker call raises on the surplus argument, so
\* the thread runs the except block and the finally block of _execute_worker.
ApiWrapperStep(job_id) ==
    \/ worker_call(job_id)
    \/ failed_check(job_id)
    \/ failed_merge(job_id)
    \/ \E o \in WebhookOutcomes : send_error_webhook(job_id, o)
    \/ worker_finally(job_id)

ApiNext ==
    \/ \E n \in BatchSizes, hook \in BOOLEAN : process_videos_async(n, hook)
    \/ \E j \in Ids, u \in UserIds : get_job_status(j, u)
    \/ \E j \in Ids : delete_job_call(j)
    \/ \E j \in StoreIds : ApiWrapperStep(j)

ApiSpec == Init /\ [][ApiNext]_vars

\* C19: a status poll of an authenticated caller answers 200 with the
\* snapshot of the record (status, progress, results, error) for every job
\* id that is in the store, and 404 only for an id that is not.
C19_PollSnapshot ==
    [][Returns("get_job_status") =>
          IF ret'.arg \in DOMAIN storage
          THEN ret'.n = 200 /\ ret'.body = status_response(storage[ret'.arg])
          ELSE ret'.n = 404]_vars

\* The step is a POST /ai/process-videos that was answered.
Posted == ret'.op = "process_videos_async" /\ (ret' # ret \/ next_id' # next_id)

\* C20: POST /ai/process-videos with an empty batch or with more than
\* MAX_VIDEOS urls answers 400, makes no job record and starts no worker;
\* with any other batch it makes exactly one new record, whose total_items
\* is the batch size, and submits that job, and no job is submitted twice.
C20_BatchValidation ==
    /\ [][Posted =>
            IF ret'.arg = 0 \/ ret'.arg > MAX_VIDEOS
            THEN /\ ret'.n = 400
                 /\ storage' = storage /\ next_id' = next_id
                 /\ wpc' = wpc /\ active_threads' = active_threads
            ELSE LET job_id == next_id'
                 IN /\ ret'.n = 200
                    /\ job_id \notin DOMAIN storage
                    /\ DOMAIN storage' = DOMAIN storage \cup {job_id}
                    /\ \A j \in DOMAIN storage : storage'[j] = storage[j]
                    /\ storage'[job_id].progress.total_items = ret'.arg
                    /\ wpc[job_id] = "idle" /\ wpc'[job_id] = "call"
                    /\ \A j \in Ids \ {job_id} : wpc'[j] = wpc[j]
                    /\ active_threads' = active_threads \cup {job_id}]_vars
    /\ [][\A j \in Ids : wpc[j] # "idle" => wpc'[j] # "idle"]_vars

\* A batch of MAX_VIDEOS urls was accepted as job 2, and job 1, made for a
\* batch of one url, has run to its end.
C20_Witness ==
    /\ ret.op = "process_videos_async" /\ ret.arg = MAX_VIDEOS /\ ret.n = 200
    /\ DOMAIN storage = {1, 2}
    /\ storage[2].progress.total_items = MAX_VIDEOS /\ wpc[2] = "call"
    /\ storage[1].progress.total_items = 1 /\ wpc[1] = "done"

\* ---------------------------------------------------------------------
\* Two jobs side by side: each is created, updated by its caller, submitted
\* with at most MaxPairItems urls and run by its own threads.

MaxPairItems == 1

\* The kwargs a caller of update_job reports one finished item with.
PairKwargs == {[completed_items |-> 1]}

PairNext ==
    \/ \E total \in 0..MaxPairItems : create_job_call(total, TRUE)
    \/ \E j \in StoreIds, kwargs \in PairKwargs : update_job_call(j, kwargs)
    \/ \E j \in StoreIds, n \in 0..MaxPairItems, extra \in BOOLEAN :
          execute_job_async_call(j, n, extra)
    \/ \E j \in StoreIds : WrapperStep(j)
    \/ \E j \in StoreIds, i \in 1..MaxPairItems : ItemStep(j, i)

PairSpec == Init /\ [][PairNext]_vars

\* The step belongs to job j: a step of one of its threads, its submit, or a
\* call by its caller that names it.
OwnStep(j) ==
    \/ wpc'[j] # wpc[j]
    \/ tasks'[j] # tasks[j]
    \/ wpc' = wpc /\ tasks' = tasks /\ ret'.op = "update_job" /\ ret'.arg = j

\* C21: two jobs have distinct ids and independent state: create_job gives
\* an id no record has and leaves every record alone, and a step that
\* changes the record of one job (update_job, an item completion, a status
\* transition) is a step of that job and changes no other record.
C21_Independent ==
    [][/\ \A j \in DOMAIN storage' \ DOMAIN storage :
             /\ DOMAIN storage' = DOMAIN storage \cup {j}
             /\ \A k \in DOMAIN storage : storage'[k] = storage[k]
       /\ \A j \in DOMAIN storage \cap DOMAIN storage' :
             storage'[j] # storage[j] =>
                /\ OwnStep(j)
                /\ \A k \in (DOMAIN storage \cap DOMAIN storage') \ {j} :
                      storage'[k] = storage[k]]_vars

\* Job 1 has finished its item and ended COMPLETED while job 2, created
\* beside it, is as create_job made it.
C21_Witness ==
    /\ DOMAIN storage = {1, 2}
    /\ storage[1].status = COMPLETED /\ storage[1].completed_items = 1
    /\ Len(storage[1].results) = 1
    /\ storage[2] = new_job(1, TRUE)

\* C22: a job created with total_items = 0 has percentage 0 at creation and
\* after every update_job call, also one that carries completed_items, and
\* no stored percentage is a quotient by zero.
C22_ZeroTotal ==
    \A j \in DOMAIN storage :
        /\ storage[j].progress.percentage.den # 0
        /\ storage[j].progress.total_items = 0 =>
              PctEq(storage[j].progress.percentage, ZeroPct)

\* update_job(job_id, completed_items=MaxItems) has returned True for a job
\* of no items.
C22_Witness ==
    /\ ret.op = "update_job" /\ ret.ok /\ ret.arg \in DOMAIN storage
    /\ storage[ret.arg].progress.total_items = 0
    /\ storage[ret.arg].completed_items = MaxItems
    /\ storage[ret.arg].progress.percentage = ZeroPct

\* C23: the error of a job record is set only when its status is FAILED,
\* and the record of a job the execution wrapper marked FAILED carries the
\* message of the fault its worker call raised.
C23_ErrorOnlyOnFailed ==
    \A j \in JobIds :
        Known(j) =>
           /\ storage[j].error # "" => StatusOf(j) = FAILED
           /\ StatusOf(j) = FAILED => werr[j] # "" /\ storage[j].error = werr[j]

\* The wrapper has just stored FAILED with the TypeError of the worker call
\* and is about to send the failure notification.
C23_Witness ==
    \E j \in JobIds : /\ Known(j) /\ wpc[j] = "f_hook" /\ StatusOf(j) = FAILED
                      /\ storage[j].error = "TypeError"

\* The terminal notifications of job j, oldest first.
TerminalSent(j) == sent[j].terminal

\* C24 without the result carried: at most one terminal notification per
\* job, exactly one once the wrapper of a job with a webhook_url that is
\* still in the store has ended, job_completed sent with the record
\* COMPLETED and job_failed with the record FAILED.
C24_OnceAfterTransition ==
    \A j \in JobIds :
        /\ Len(TerminalSent(j)) <= 1
        /\ wpc[j] = "done" /\ Sends(j) => Len(TerminalSent(j)) = 1
        /\ \A k \in 1..Len(TerminalSent(j)) :
              /\ TerminalSent(j)[k].type = "job_completed"
                    => TerminalSent(j)[k].status = COMPLETED
              /\ TerminalSent(j)[k].type = "job_failed"
                    => TerminalSent(j)[k].status = FAILED

\* C24: every submitted job with a webhook_url that stays in the store gets
\* exactly one terminal notification, sent after the transition it reports:
\* job_completed with the record COMPLETED and carrying the result the
\* worker routine returned, job_failed with the record FAILED, never both.
C24_TerminalNotification ==
    /\ C24_OnceAfterTransition
    /\ \A j \in JobIds : \A k \in 1..Len(TerminalSent(j)) :
          TerminalSent(j)[k].type = "job_completed"
             => TerminalSent(j)[k].results = summary[j].results

\* Item i of job j has ended and the job, which has a webhook_url, is still
\* in the store.
EndedNotifiable(j, i) == Task(j, i).pc = "done" /\ Sends(j)

\* C25 for the items whose collaborator call returned a success: the
\* progress notification of item i is sent once slot i is written, and it
\* has been sent when the task ends.
C25_SuccessNotified ==
    \A j \in JobIds : \A i \in Items(j) :
        /\ i \in sent[j].progress => slots[j][i] # None
        /\ EndedNotifiable(j, i) /\ Task(j, i).out \in {"ok", "okfail"}
              => i \in sent[j].progress

\* C25: every item task of a job with a webhook_url sends the progress
\* notification of its item, whether the outcome is a success or an error
\* outcome, after it wrote the outcome into slot i.
C25_ProgressNotified ==
    \A j \in JobIds : \A i \in Items(j) :
        /\ i \in sent[j].progress => slots[j][i] # None
        /\ EndedNotifiable(j, i) => i \in sent[j].progress

\* C26: no progress notification of a job is sent after its terminal
\* notification: a step that sends one finds no terminal notification sent,
\* and once a terminal one is sent every item task has ended.
C26_ProgressBeforeTerminal ==
    /\ [][\A j \in JobIds :
            sent'[j].progress # sent[j].progress => TerminalSent(j) = <<>>]_vars
    /\ [](\A j \in JobIds :
            TerminalSent(j) # <<>> => \A i \in Items(j) : Task(j, i).pc = "done")

\* Both items of a job sent their progress notification and the
\* job_completed notification followed.
C26_Witness ==
    \E j \in JobIds :
        /\ sent[j].progress = {1, 2}
        /\ Len(TerminalSent(j)) = 1 /\ TerminalSent(j)[1].type = "job_completed"

\* C27: the worker routine of a job submitted by POST /ai/process-videos is
\* called with arguments it accepts: the call raises no TypeError, one item
\* slot (and task) exists for every submitted url once the call is under
\* way, and a job that is still in the store does not end FAILED.
C27_WorkerAccepted ==
    \A j \in StoreIds :
        /\ werr[j] # "TypeError"
        /\ wpc[j] \notin {"idle", "call"} => Len(slots[j]) = wargs[j].n
        /\ wpc[j] = "done" /\ Known(j) => StatusOf(j) = COMPLETED

\* ---------------------------------------------------------------------
\* The goal and task handlers of main.py over the database.  A handler is an
\* async def with no await inside: it runs from entry to return with no
\* other request in between.

MaxGoals == 2
MaxTasks == 3
GoalIds == 1..MaxGoals
TaskIds == 1..MaxTasks

\* What no job, thread or clock step is left to change by a goal handler.
job_vars == <<storage, next_id, active_threads, wpc, wargs, werr, slots, tasks,
              summary, sent, now, clean>>

\* The query of main.py:156-159 / 341-344 finds a row: goal goal_id exists
\* and belongs to user_id.
owned_goal(d, goal_id, user_id) ==
    goal_id \in 1..Len(d.goals) /\ d.goals[goal_id].user_id = user_id

\* The tasks rows with Task.goal_id == goal_id
tasks_of(d, goal_id) == {t \in 1..Len(d.tasks) : d.tasks[t].goal_id = goal_id}

\* POST /my/goals (main.py:133-146): a new goal of the caller, completed
\* False by the column default.
create_my_learning_goal(user_id) ==
    /\ Len(db.goals) < MaxGoals
    /\ db' = [db EXCEPT !.goals = Append(@, [user_id |-> user_id, completed |-> FALSE])]
    /\ ret' = Return("create_my_learning_goal", Len(db.goals) + 1, TRUE, 200)
    /\ UNCHANGED job_vars

\* POST /my/goals/{goal_id}/tasks (main.py:148-179): 404 unless the goal is
\* the caller's, else a new task row, completed False by the column default.
create_my_task(goal_id, user_id) ==
    /\ IF owned_goal(db, goal_id, user_id)
       THEN /\ Len(db.tasks) < MaxTasks
            /\ db' = [db EXCEPT !.tasks = Append(@, [goal_id |-> goal_id,
                                                     completed |-> FALSE])]
            /\ ret' = Return("create_my_task", Len(db.tasks) + 1, TRUE, 200)
       ELSE /\ db' = db
            /\ ret' = Return("create_my_task", goal_id, FALSE, 404)
    /\ UNCHANGED job_vars

\* check_and_complete_goal (main.py:301-330): the flag it returns
goal_auto_completed(d, goal_id) ==
    LET total_tasks == Cardinality(tasks_of(d, goal_id))
        completed_tasks == Cardinality({t \in tasks_of(d, goal_id) : d.tasks[t].completed})
    IN total_tasks # 0 /\ total_tasks = completed_tasks

\* check_and_complete_goal (main.py:301-330): the database it leaves
check_and_complete_goal(d, goal_id) ==
    IF tasks_of(d, goal_id) = {}
    THEN d
    ELSE [d EXCEPT !.goals[goal_id].completed = goal_auto_completed(d, goal_id)]

\* PUT /my/goals/{goal_id}/tasks/{task_id} (main.py:332-372): 404 unless the
\* goal is the caller's and the task is a task of the goal; else the task is
\* completed and check_and_complete_goal runs.
update_my_task(goal_id, task_id, user_id) ==
    /\ IF owned_goal(db, goal_id, user_id) /\ task_id \in tasks_of(db, goal_id)
       THEN LET done == [db EXCEPT !.tasks[task_id].completed = TRUE]
            IN /\ db' = check_and_complete_goal(done, goal_id)
               /\ ret' = Return("update_my_task", task_id,
                                goal_auto_completed(done, goal_id), 200)
       ELSE /\ db' = db
            /\ ret' = Return("update_my_task", task_id, FALSE, 404)
    /\ UNCHANGED job_vars

GoalNext ==
    \/ \E u \in UserIds : create_my_learning_goal(u)
    \/ \E g \in GoalIds, u \in UserIds : create_my_task(g, u)
    \/ \E g \in GoalIds, t \in TaskIds, u \in UserIds : update_my_task(g, t, u)

GoalSpec == Init /\ [][GoalNext]_vars

\* C28: whatever tasks are created in a goal (create_my_task) and completed
\* (update_my_task), the goal is completed only if it has at least one task
\* and every task of it is completed.
C28_GoalCompletion ==
    \A g \in 1..Len(db.goals) :
        db.goals[g].completed =>
           /\ tasks_of(db, g) # {}
           /\ \A t \in tasks_of(db, g) : db.tasks[t].completed

====
